---- MODULE Spec2Model ----
(***************************************************************************)
(* A model of the yalo Go client (src/yalo.go): the shared rate-limit gate *)
(* created by NewClient, Client.SendRequest with the retry loop of the     *)
(* retryable HTTP client it delegates to, the JSON classification of the   *)
(* response, and Client.SendNotification on top of it.                     *)
(*                                                                         *)
(* Time is a discrete clock `now`; the ticker of the gate fires every      *)
(* Interval clock units.  Each call is a process (a goroutine) whose       *)
(* position is pc[c]; it blocks at the gate, during an HTTP attempt, and   *)
(* during the backoff wait between two attempts.                           *)
(***************************************************************************)
EXTENDS Integers, Sequences, FiniteSets, TLC

\* ---------------------------------------------------------------- bounds
\* Spec: the calls made and the clock's horizon.
NumCalls == 1
MaxTime == 2
\* SpecGate: the concurrent calls made and the clock's horizon.
GateCalls == 3
GateTime == 6
\* SpecLive: the concurrent calls made, and the time after which the clock is
\* folded back by one tick period.
LiveCalls == 2
LiveTime == 2

Calls == 1..(IF NumCalls > GateCalls THEN NumCalls ELSE GateCalls)

\* ------------------------------------------------------ program constants
\* retryClient.RetryMax = 3: the number of RETRIES after the first attempt.
RetryMax == 3
\* time.Tick(time.Second / 40): the tick period, in clock units of the model
\* (one unit is half a period, so that a call can start between two ticks).
Interval == 2
\* The channel returned by time.Tick holds at most one undelivered tick.
GateCap == 1
\* c.Token[:10]: the characters of the token the debug log shows.
TokenPrefix == 10

\* ------------------------------------------------------------ JSON texts
\* A body is a sequence of lexical tokens.
Tok(t, v) == [t |-> t, v |-> v]
LBrace == Tok("{", "")
RBrace == Tok("}", "")
LBrack == Tok("[", "")
RBrack == Tok("]", "")
Colon == Tok(":", "")
Comma == Tok(",", "")
Str(s) == Tok("str", s)
Lit(s) == Tok("lit", s)
Junk(s) == Tok("junk", s)

\* {"success":true,"id":"123","message_ids":["abc","def"]}
BodySuccess ==
    << LBrace, Str("success"), Colon, Lit("true"), Comma,
       Str("id"), Colon, Str("123"), Comma,
       Str("message_ids"), Colon, LBrack, Str("abc"), Comma, Str("def"), RBrack,
       RBrace >>
\* The failure payload as json.Marshal writes the map (keys in sorted order):
\* {"id":"","message_ids":null,"reason":{"description":...,"details":[{...}],
\*  "error":"validation_error"},"success":false}
BodyFailure ==
    << LBrace, Str("id"), Colon, Str(""), Comma,
       Str("message_ids"), Colon, Lit("null"), Comma,
       Str("reason"), Colon, LBrace,
           Str("description"), Colon,
               Str("Template's parameter validation encountered errors"), Comma,
           Str("details"), Colon, LBrack, LBrace,
               Str("description"), Colon,
                   Str("user `+15868504413` button's text parameter is missing or empty"),
                   Comma,
               Str("parameter"), Colon, Str("buttons.0.parameters.text"), Comma,
               Str("phone"), Colon, Str("+15868504413"), Comma,
               Str("type"), Colon, Str("invalid-button-param"),
           RBrace, RBrack, Comma,
           Str("error"), Colon, Str("validation_error"),
       RBrace, Comma,
       Str("success"), Colon, Lit("false"), RBrace >>
\* ["m1"]: valid JSON that is no object
BodyArray == << LBrack, Str("m1"), RBrack >>
\* <html>...</html>: an error page
BodyHTML == << Junk("<html>") >>
\* {"success":  a JSON text cut short
BodyTruncated == << LBrace, Str("success"), Colon >>

Bodies == {BodySuccess, BodyFailure, BodyArray, BodyHTML, BodyTruncated}

\* Decoded JSON values.
JNull == [k |-> "null"]
JBool(b) == [k |-> "bool", b |-> b]
JStr(s) == [k |-> "str", s |-> s]
JArr(items) == [k |-> "arr", items |-> items]
JObj(members) == [k |-> "obj", members |-> members]

ParseFail == [ok |-> FALSE, next |-> 0, val |-> JNull]
ParseOK(next, val) == [ok |-> TRUE, next |-> next, val |-> val]

RECURSIVE ParseValue(_, _)
RECURSIVE ParseElements(_, _, _)
RECURSIVE ParseMembers(_, _, _)

\* One JSON value starting at token i: the value and the index after it.
ParseValue(toks, i) ==
    IF i > Len(toks) THEN ParseFail
    ELSE LET tk == toks[i] IN
         CASE tk.t = "str" -> ParseOK(i + 1, JStr(tk.v))
           [] tk.t = "lit" ->
                IF tk.v = "true" THEN ParseOK(i + 1, JBool(TRUE))
                ELSE IF tk.v = "false" THEN ParseOK(i + 1, JBool(FALSE))
                ELSE IF tk.v = "null" THEN ParseOK(i + 1, JNull)
                ELSE ParseFail
           [] tk.t = "[" ->
                IF i + 1 <= Len(toks) /\ toks[i + 1].t = "]"
                THEN ParseOK(i + 2, JArr(<< >>))
                ELSE ParseElements(toks, i + 1, << >>)
           [] tk.t = "{" ->
                IF i + 1 <= Len(toks) /\ toks[i + 1].t = "}"
                THEN ParseOK(i + 2, JObj(<< >>))
                ELSE ParseMembers(toks, i + 1, << >>)
           [] OTHER -> ParseFail

\* value ( "," value )* "]"
ParseElements(toks, i, acc) ==
    LET v == ParseValue(toks, i) IN
    IF ~v.ok \/ v.next > Len(toks) THEN ParseFail
    ELSE LET items == Append(acc, v.val) IN
         IF toks[v.next].t = "]" THEN ParseOK(v.next + 1, JArr(items))
         ELSE IF toks[v.next].t = "," THEN ParseElements(toks, v.next + 1, items)
         ELSE ParseFail

\* string ":" value ( "," string ":" value )* "}"
ParseMembers(toks, i, acc) ==
    IF i + 1 > Len(toks) \/ toks[i].t # "str" \/ toks[i + 1].t # ":" THEN ParseFail
    ELSE LET v == ParseValue(toks, i + 2) IN
         IF ~v.ok \/ v.next > Len(toks) THEN ParseFail
         ELSE LET ms == Append(acc, [key |-> toks[i].v, val |-> v.val]) IN
              IF toks[v.next].t = "}" THEN ParseOK(v.next + 1, JObj(ms))
              ELSE IF toks[v.next].t = "," THEN ParseMembers(toks, v.next + 1, ms)
              ELSE ParseFail

\* json.Unmarshal(body, &testJSON) into an interface{}: the whole text is one value.
Unmarshal(body) ==
    LET v == ParseValue(body, 1) IN
    IF v.ok /\ v.next = Len(body) + 1 THEN v ELSE ParseFail

IsValidJSON(body) == Unmarshal(body).ok

\* ------------------------------------------------ NotificationResponse
\* The zero value of the struct {Success bool; ID string; MessageIDs []string}.
ZeroNotification == [Success |-> FALSE, ID |-> "", MessageIDs |-> << >>]

AllStrings(items) == \A i \in 1..Len(items) : items[i].k = "str"

\* One member of the JSON object stored into the struct: [ok, val].  A key that
\* names no field is ignored; null leaves the field as it is; a value of
\* another type than the field's is an error.
SetFieldReversesIDs(acc, m) ==
    CASE m.val.k = "null" -> [ok |-> TRUE, val |-> acc]
      [] m.key = "success" ->
            IF m.val.k = "bool"
            THEN [ok |-> TRUE, val |-> [acc EXCEPT !.Success = m.val.b]]
            ELSE [ok |-> FALSE, val |-> acc]
      [] m.key = "id" ->
            IF m.val.k = "str"
            THEN [ok |-> TRUE, val |-> [acc EXCEPT !.ID = m.val.s]]
            ELSE [ok |-> FALSE, val |-> acc]
      [] m.key = "message_ids" ->
            IF m.val.k = "arr" /\ AllStrings(m.val.items)
            THEN [ok |-> TRUE,
                  val |-> [acc EXCEPT !.MessageIDs =
                             [i \in 1..Len(m.val.items) |->
                                 m.val.items[Len(m.val.items) + 1 - i].s]]]
            ELSE [ok |-> FALSE, val |-> acc]
      [] OTHER -> [ok |-> TRUE, val |-> acc]
SetField(acc, m) ==
    CASE m.val.k = "null" -> [ok |-> TRUE, val |-> acc]
      [] m.key = "success" ->
            IF m.val.k = "bool"
            THEN [ok |-> TRUE, val |-> [acc EXCEPT !.Success = m.val.b]]
            ELSE [ok |-> FALSE, val |-> acc]
      [] m.key = "id" ->
            IF m.val.k = "str"
            THEN [ok |-> TRUE, val |-> [acc EXCEPT !.ID = m.val.s]]
            ELSE [ok |-> FALSE, val |-> acc]
      [] m.key = "message_ids" ->
            IF m.val.k = "arr" /\ AllStrings(m.val.items)
            THEN [ok |-> TRUE,
                  val |-> [acc EXCEPT !.MessageIDs =
                             [i \in 1..Len(m.val.items) |-> m.val.items[i].s]]]
            ELSE [ok |-> FALSE, val |-> acc]
      [] OTHER -> [ok |-> TRUE, val |-> acc]

RECURSIVE SetFields(_, _, _)
SetFields(members, i, acc) ==
    IF i > Len(members) THEN [ok |-> TRUE, val |-> acc]
    ELSE LET r == SetField(acc, members[i]) IN
         IF r.ok THEN SetFields(members, i + 1, r.val) ELSE r

\* Response.ParseResponse(&result) for a NotificationResponse: [ok, val].
ParseResponse(jsonData) ==
    LET v == Unmarshal(jsonData) IN
    IF ~v.ok THEN [ok |-> FALSE, val |-> ZeroNotification]
    ELSE CASE v.val.k = "null" -> [ok |-> TRUE, val |-> ZeroNotification]
           [] v.val.k = "obj" -> SetFields(v.val.members, 1, ZeroNotification)
           [] OTHER -> [ok |-> FALSE, val |-> ZeroNotification]

\* --------------------------------------------------------------- client
TokenLong == << "s", "e", "c", "r", "e", "t", "-", "t", "o", "k", "e", "n" >>
TokenShort == << "t", "o", "k" >>
TokenTen == << "t", "o", "k", "e", "n", "-", "0", "1", "2", "3" >>

WithAccount(accountID, botID) ==
    [opt |-> "WithAccount", accountID |-> accountID, botID |-> botID]
WithToken(token) == [opt |-> "WithToken", token |-> token]
WithDebug(debug) == [opt |-> "WithDebug", debug |-> debug]

ApplyOption(c, o) ==
    CASE o.opt = "WithAccount" ->
            [c EXCEPT !.AccountID = o.accountID, !.BotID = o.botID]
      [] o.opt = "WithToken" -> [c EXCEPT !.Token = o.token]
      [] o.opt = "WithDebug" -> [c EXCEPT !.Debug = o.debug]

RECURSIVE ApplyOptions(_, _, _)
ApplyOptions(c, opts, i) ==
    IF i > Len(opts) THEN c ELSE ApplyOptions(ApplyOption(c, opts[i]), opts, i + 1)

\* NewClient(opts...): the defaults, then every option in order.
NewClient(opts) ==
    ApplyOptions([BaseURL |-> "https://api-global.yalochat.com",
                  AccountID |-> "", BotID |-> "", Token |-> << >>,
                  Debug |-> FALSE, RetryMax |-> RetryMax],
                 opts, 1)

\* The clients the model is run with.
OptionLists ==
    { << WithAccount("acct", "bot"), WithToken(TokenLong) >>,
      << WithAccount("", "bot") >>,
      << WithAccount("acct", ""), WithToken(TokenLong) >>,
      << WithAccount("acct", "bot"), WithToken(TokenShort), WithDebug(TRUE) >>,
      << WithAccount("acct", "bot"), WithToken(TokenTen), WithDebug(TRUE) >> }

\* -------------------------------------------------- NotificationRequest
NotificationType == "order_update"
Phone == "+15555550100"

WithPriority(priority) == [opt |-> "WithPriority", priority |-> priority]

\* opt(&user) for one NotificationOption.
ApplyNotificationOption(user, o) == [user EXCEPT !.Priority = o.priority]

\* for _, opt := range opts { opt(&user) }
RECURSIVE ApplyNotificationOptions(_, _, _)
ApplyFirstNotificationOption(user, options, i) ==
    IF i > Len(options) THEN user ELSE ApplyNotificationOption(user, options[i])
ApplyNotificationOptions(user, options, i) ==
    IF i > Len(options) THEN user
    ELSE ApplyNotificationOptions(ApplyNotificationOption(user, options[i]),
                                  options, i + 1)

\* The user of the request: priority "1", then every option in call order.
NewUser(phone, params, options) ==
    ApplyNotificationOptions([Priority |-> "1", Phone |-> phone, Params |-> params],
                             options, 1)

NewNotificationRequest(type, users) == [Type |-> type, Users |-> users]

\* The option lists SendNotification is called with.
NotificationOptionLists ==
    { << >>,
      << WithPriority("2"), WithPriority("0") >>,
      << WithPriority("0"), WithPriority("") >> }

\* json.Marshal of the params map: {"name":"Ana"}
MarshalParams(params) == << LBrace, Str("name"), Colon, Str("Ana"), RBrace >>

\* json.Marshal of a User; the priority is tagged omitempty.
MarshalUser(u) ==
    << LBrace >>
    \o (IF u.Priority = "" THEN << >>
        ELSE << Str("priority"), Colon, Str(u.Priority), Comma >>)
    \o << Str("phone"), Colon, Str(u.Phone), Comma, Str("params"), Colon >>
    \o MarshalParams(u.Params) \o << RBrace >>

RECURSIVE MarshalUsers(_, _)
MarshalUsers(users, i) ==
    IF i > Len(users) THEN << >>
    ELSE MarshalUser(users[i])
         \o (IF i < Len(users) THEN << Comma >> ELSE << >>)
         \o MarshalUsers(users, i + 1)

\* json.Marshal of a NotificationRequest.
MarshalRequest(req) ==
    << LBrace, Str("type"), Colon, Str(req.Type), Comma, Str("users"), Colon, LBrack >>
    \o MarshalUsers(req.Users, 1) \o << RBrack, RBrace >>

\* The jsonRequest a direct caller of SendRequest passes: {}
SampleRequest == << LBrace, RBrace >>

\* ------------------------------------------------------------ transport
\* What one HTTP attempt can end with: a transport-level error, or a response.
TransportError == [kind |-> "error", status |-> 0, body |-> << >>, hdr |-> ""]
HTTPResponse(status, body) ==
    [kind |-> "response", status |-> status, body |-> body,
     hdr |-> IF IsValidJSON(body) THEN "application/json" ELSE "text/html"]

\* What the server is made to answer: statuses the retry policy hands to the
\* caller (200, 400, 401, 501) and statuses it retries (429, 502), with JSON
\* and with non-JSON bodies.
ServerResponses ==
    { HTTPResponse(200, b) : b \in Bodies }
    \cup { HTTPResponse(s, b) : s \in {400, 429, 502}, b \in {BodyFailure, BodyHTML} }
    \cup { HTTPResponse(401, BodyArray) }
    \cup { HTTPResponse(501, BodyHTML) }
Outcomes == {TransportError} \cup ServerResponses

\* The retry policy of the retryable client: [retry, err].
CheckRetryNoErrors(ctxErr, o) ==
    IF ctxErr THEN [retry |-> FALSE, err |-> "ctx"]
    ELSE IF o.kind = "error" THEN [retry |-> FALSE, err |-> "none"]
    ELSE IF o.status = 429 THEN [retry |-> TRUE, err |-> "none"]
    ELSE IF o.status = 0 \/ (o.status >= 500 /\ o.status # 501)
         THEN [retry |-> TRUE, err |-> "status"]
    ELSE [retry |-> FALSE, err |-> "none"]
CheckRetryEvery5xx(ctxErr, o) ==
    IF ctxErr THEN [retry |-> FALSE, err |-> "ctx"]
    ELSE IF o.kind = "error" THEN [retry |-> TRUE, err |-> "none"]
    ELSE IF o.status = 429 THEN [retry |-> TRUE, err |-> "none"]
    ELSE IF o.status = 0 \/ o.status >= 500
         THEN [retry |-> TRUE, err |-> "status"]
    ELSE [retry |-> FALSE, err |-> "none"]
CheckRetry(ctxErr, o) ==
    IF ctxErr THEN [retry |-> FALSE, err |-> "ctx"]
    ELSE IF o.kind = "error" THEN [retry |-> TRUE, err |-> "none"]
    ELSE IF o.status = 429 THEN [retry |-> TRUE, err |-> "none"]
    ELSE IF o.status = 0 \/ (o.status >= 500 /\ o.status # 501)
         THEN [retry |-> TRUE, err |-> "status"]
    ELSE [retry |-> FALSE, err |-> "none"]

\* The retries left after the attempt with index i (from 0) of the loop.
RemainOneMore(cl, i) == cl.RetryMax - i + 1
RemainOneLess(cl, i) == cl.RetryMax - i - 1
Remain(cl, i) == cl.RetryMax - i

\* ---------------------------------------------------------------- errors
ErrNone == "nil"
ErrConfig == "accountID and botID are required"
ErrMarshal == "error marshaling payload to JSON"
ErrCreate == "error creating HTTP request"
ErrCancelled == "error sending request: context canceled"
ErrGiveUp == "error sending request: giving up"
ErrRead == "error reading response body"
ErrNonJSON == "API returned non-JSON response"
ErrParse == "error parsing response"

NilResponse == [nil |-> TRUE]
Response(jsonData, statusCode, headers) ==
    [nil |-> FALSE, JSONData |-> jsonData, StatusCode |-> statusCode, Headers |-> headers]

NilNotification == [nil |-> TRUE]
Notification(v) ==
    [nil |-> FALSE, Success |-> v.Success, ID |-> v.ID, MessageIDs |-> v.MessageIDs]

\* ----------------------------------------------------------------- state
VARIABLES
    client,         \* the Client built by NewClient
    rateLimiter,    \* the gate: the undelivered ticks of the ticker channel
    now,            \* the clock
    ticksEmitted,   \* how many times the ticker has fired
    pc,             \* where each call is
    op,             \* the operation each call runs
    endpoint,       \* the endpoint of each call
    ctxDone,        \* whether the context of each call is cancelled
    attempts,       \* the HTTP attempts made for each call
    cur,            \* what the last HTTP attempt of the call ended with
    resp,           \* the *Response SendRequest returned
    result,         \* the *NotificationResponse SendNotification returned
    err,            \* the error the call returned
    ticket,         \* the tick that admitted the call (0: none)
    admitAt,        \* when the call passed the gate
    failed,         \* the attempts of the call that failed and were retryable
    cancelAt,       \* where the call was when its context was cancelled
    cancelAttempts, \* the attempts made when its context was cancelled
    bodyRead,       \* how reading the body of the response ended ("": not read)
    jsonRequest,    \* the request body each call hands to SendRequest
    callOpts,       \* the options SendNotification applied to the user
    logged          \* the debug lines each call has written to the log

vars == << client, rateLimiter, now, ticksEmitted, pc, op, endpoint,
           ctxDone, attempts, cur, resp, result, err, ticket, admitAt, failed,
           cancelAt, cancelAttempts, bodyRead, jsonRequest, callOpts, logged >>

gateVars == << rateLimiter, now, ticksEmitted >>
ghostVars == << cancelAt, cancelAttempts, bodyRead >>
reqVars == << jsonRequest, callOpts >>

NoResponse == [kind |-> "none", status |-> 0, body |-> << >>, hdr |-> ""]

InitCalls ==
    /\ rateLimiter = << >>
    /\ now = 0
    /\ ticksEmitted = 0
    /\ pc = [c \in Calls |-> "idle"]
    /\ op = [c \in Calls |-> ""]
    /\ endpoint = [c \in Calls |-> ""]
    /\ ctxDone = [c \in Calls |-> FALSE]
    /\ attempts = [c \in Calls |-> 0]
    /\ cur = [c \in Calls |-> NoResponse]
    /\ resp = [c \in Calls |-> NilResponse]
    /\ result = [c \in Calls |-> NilNotification]
    /\ err = [c \in Calls |-> ErrNone]
    /\ ticket = [c \in Calls |-> 0]
    /\ admitAt = [c \in Calls |-> 0]
    /\ failed = [c \in Calls |-> 0]
    /\ cancelAt = [c \in Calls |-> ""]
    /\ cancelAttempts = [c \in Calls |-> 0]
    /\ bodyRead = [c \in Calls |-> ""]
    /\ jsonRequest = [c \in Calls |-> << >>]
    /\ callOpts = [c \in Calls |-> << >>]
    /\ logged = [c \in Calls |-> << >>]

Init ==
    /\ client \in { NewClient(opts) : opts \in OptionLists }
    /\ InitCalls

\* A panic of one goroutine ends the process.
Crashed == \E c \in Calls : pc[c] = "panic"

\* ------------------------------------------------------------- the gate
\* The runtime fires the ticker: the tick is queued unless one is waiting.
FireUnbounded(ch, tick) == Append(ch, tick)
Fire(ch, tick) == IF Len(ch) < GateCap THEN Append(ch, tick) ELSE ch

\* <-ch: the channel after its first tick is received.
ReceiveKeepsTick(ch) == ch
Receive(ch) == Tail(ch)

\* The clock advances by one unit; the ticker fires every Interval units.
Tick(horizon) ==
    /\ ~Crashed
    /\ now < horizon
    /\ now' = now + 1
    /\ IF (now + 1) % Interval = 0
       THEN /\ ticksEmitted' = ticksEmitted + 1
            /\ rateLimiter' = Fire(rateLimiter, ticksEmitted + 1)
       ELSE UNCHANGED << ticksEmitted, rateLimiter >>
    /\ UNCHANGED << client, pc, op, endpoint, ctxDone, attempts, cur, resp,
                    result, err, ticket, admitAt, failed, cancelAt,
                    cancelAttempts, bodyRead, reqVars, logged >>

\* The ticker never stops.  To keep the clock finite, time past the horizon is
\* folded back by one tick period, which keeps the phase of the ticker; a tick
\* carries the number of the period of the (folded) clock it fires in.
TickForever(horizon) ==
    /\ ~Crashed
    /\ LET next == IF now < horizon THEN now + 1 ELSE now + 1 - Interval
       IN /\ now' = next
          /\ IF next % Interval = 0
             THEN /\ ticksEmitted' = next \div Interval
                  /\ rateLimiter' = Fire(rateLimiter, next \div Interval)
             ELSE UNCHANGED << ticksEmitted, rateLimiter >>
    /\ UNCHANGED << client, pc, op, endpoint, ctxDone, attempts, cur, resp,
                    result, err, ticket, admitAt, failed, cancelAt,
                    cancelAttempts, bodyRead, reqVars, logged >>

\* ------------------------------------------------------------ the calls
Endpoints == {"/v1/messages", "/%zz"}
\* retryablehttp.NewRequest fails when the URL does not parse.
ParsesAsURL(url) == url # "/%zz"

NotificationsEndpoint(c) == "/notifications/api/v1/accounts/" \o c.AccountID
                               \o "/bots/" \o c.BotID \o "/notifications"

Params == {"map", "chan"}
\* json.Marshal fails on a value JSON cannot represent.
Marshals(params) == params # "chan"

\* c.AccountID == "" || c.BotID == ""
MissingAccountOnly(cl) == cl.AccountID = ""
MissingAccount(cl) == cl.AccountID = "" \/ cl.BotID = ""

\* The call returns.
Return(c, r, n, e) ==
    /\ pc' = [pc EXCEPT ![c] = "done"]
    /\ resp' = [resp EXCEPT ![c] = r]
    /\ result' = [result EXCEPT ![c] = n]
    /\ err' = [err EXCEPT ![c] = e]

\* SendRequest(ctx, endpoint, jsonRequest) is called: it waits at the gate.
SendRequestKeepsURL(c, ep, body) ==
    /\ ~Crashed
    /\ pc[c] = "idle"
    /\ op' = [op EXCEPT ![c] = "SendRequest"]
    /\ endpoint' = [endpoint EXCEPT ![c] = ep]
    /\ jsonRequest' = [jsonRequest EXCEPT ![c] = body]
    /\ pc' = [pc EXCEPT ![c] = "gate"]
    /\ client' = [client EXCEPT !.BaseURL = @ \o ep]
    /\ UNCHANGED << gateVars, ctxDone, attempts, cur, resp, result,
                    err, ticket, admitAt, failed, ghostVars, callOpts, logged >>
SendRequest(c, ep, body) ==
    /\ ~Crashed
    /\ pc[c] = "idle"
    /\ op' = [op EXCEPT ![c] = "SendRequest"]
    /\ endpoint' = [endpoint EXCEPT ![c] = ep]
    /\ jsonRequest' = [jsonRequest EXCEPT ![c] = body]
    /\ pc' = [pc EXCEPT ![c] = "gate"]
    /\ UNCHANGED << client, gateVars, ctxDone, attempts, cur, resp, result,
                    err, ticket, admitAt, failed, ghostVars, callOpts, logged >>

\* SendNotification(ctx, type, phone, params, opts...) is called: it returns
\* at once without account or bot; otherwise it builds the one user of the
\* request, applies the options, and returns when the payload does not marshal
\* or enters SendRequest with the marshalled payload.
SendNotification(c, params, options) ==
    /\ ~Crashed
    /\ pc[c] = "idle"
    /\ op' = [op EXCEPT ![c] = "SendNotification"]
    /\ IF MissingAccount(client)
       THEN /\ Return(c, NilResponse, NilNotification, ErrConfig)
            /\ UNCHANGED << endpoint, reqVars >>
       ELSE LET user == NewUser(Phone, params, options)
                payload == NewNotificationRequest(NotificationType, << user >>)
            IN /\ endpoint' = [endpoint EXCEPT ![c] = NotificationsEndpoint(client)]
               /\ callOpts' = [callOpts EXCEPT ![c] = options]
               /\ IF ~Marshals(params)
                  THEN /\ Return(c, NilResponse, NilNotification, ErrMarshal)
                       /\ UNCHANGED jsonRequest
                  ELSE /\ pc' = [pc EXCEPT ![c] = "gate"]
                       /\ jsonRequest' = [jsonRequest EXCEPT
                                            ![c] = MarshalRequest(payload)]
                       /\ UNCHANGED << resp, result, err >>
    /\ UNCHANGED << client, gateVars, ctxDone, attempts, cur, ticket,
                    admitAt, failed, ghostVars, logged >>

\* The caller cancels the context of a call that is under way.
Cancel(c) ==
    /\ ~Crashed
    /\ pc[c] \in {"gate", "inflight", "backoff", "read"}
    /\ ~ctxDone[c]
    /\ ctxDone' = [ctxDone EXCEPT ![c] = TRUE]
    /\ cancelAt' = [cancelAt EXCEPT ![c] = pc[c]]
    /\ cancelAttempts' = [cancelAttempts EXCEPT ![c] = attempts[c]]
    /\ UNCHANGED << client, gateVars, pc, op, endpoint, attempts, cur, resp,
                    result, err, ticket, admitAt, failed, bodyRead, reqVars,
                    logged >>

\* The debug lines written before the request is created.
RequestLines(cl, ep, body) ==
    IF cl.Debug
    THEN << [line |-> "Request URL", url |-> cl.BaseURL \o ep],
            [line |-> "Request Body", body |-> body] >>
    ELSE << >>

\* c.Token[:10] panics when the token has fewer characters.
TokenPrefixPanics(cl) == cl.Token # << >> /\ cl.Debug /\ Len(cl.Token) < TokenPrefix

\* The debug line for the Authorization header: token holds the characters
\* printed for %s in "Authorization: Bearer %s...".
TokenLine(cl) ==
    IF cl.Token # << >> /\ cl.Debug
    THEN << [line |-> "Authorization", token |-> SubSeq(cl.Token, 1, TokenPrefix)] >>
    ELSE << >>

\* The debug lines written once the body of the response is read.
ResponseLines(cl, r) ==
    IF cl.Debug
    THEN << [line |-> "Response Status", status |-> r.status],
            [line |-> "Response Body", body |-> r.body] >>
    ELSE << >>

\* <-c.rateLimiter delivers a tick; the request is built, the token is logged
\* in debug mode, and RetryableClient.Do starts the first attempt.
Admit(c) ==
    /\ ~Crashed
    /\ pc[c] = "gate"
    /\ rateLimiter # << >>
    /\ rateLimiter' = Receive(rateLimiter)
    /\ ticket' = [ticket EXCEPT ![c] = Head(rateLimiter)]
    /\ admitAt' = [admitAt EXCEPT ![c] = now]
    /\ LET lines == RequestLines(client, endpoint[c], jsonRequest[c]) IN
       IF ~ParsesAsURL(endpoint[c])
       THEN /\ Return(c, NilResponse, NilNotification, ErrCreate)
            /\ logged' = [logged EXCEPT ![c] = @ \o lines]
            /\ UNCHANGED attempts
       ELSE IF TokenPrefixPanics(client)
       THEN /\ pc' = [pc EXCEPT ![c] = "panic"]
            /\ logged' = [logged EXCEPT ![c] = @ \o lines]
            /\ UNCHANGED << attempts, resp, result, err >>
       ELSE /\ pc' = [pc EXCEPT ![c] = "inflight"]
            /\ logged' = [logged EXCEPT ![c] = @ \o lines \o TokenLine(client)]
            /\ attempts' = [attempts EXCEPT ![c] = 1]
            /\ UNCHANGED << resp, result, err >>
    /\ UNCHANGED << client, now, ticksEmitted, op, endpoint, ctxDone, cur,
                    failed, ghostVars, reqVars >>

\* The attempt in flight ends with outcome o; the retry policy decides whether
\* the loop of RetryableClient.Do waits for another attempt, hands the response
\* to SendRequest, or gives up.
FinishAttempt(c, o) ==
    /\ ~Crashed
    /\ pc[c] = "inflight"
    \* with the context cancelled the HTTP client returns the context's error
    /\ ctxDone[c] => o = TransportError
    /\ LET check == CheckRetry(ctxDone[c], o)
           remain == Remain(client, attempts[c] - 1)
       IN /\ failed' = [failed EXCEPT ![c] = IF check.retry THEN @ + 1 ELSE @]
          /\ cur' = [cur EXCEPT ![c] = o]
          /\ IF check.retry /\ remain > 0
             THEN /\ pc' = [pc EXCEPT ![c] = "backoff"]
                  /\ UNCHANGED << resp, result, err >>
             ELSE IF ~check.retry /\ check.err = "none" /\ o.kind = "response"
             THEN /\ pc' = [pc EXCEPT ![c] = "read"]
                  /\ UNCHANGED << resp, result, err >>
             ELSE Return(c, NilResponse, NilNotification,
                         IF check.err = "ctx" THEN ErrCancelled ELSE ErrGiveUp)
    /\ UNCHANGED << client, gateVars, op, endpoint, ctxDone, attempts,
                    ticket, admitAt, ghostVars, reqVars, logged >>

\* The wait between two attempts ends: with the context's error when it is
\* cancelled, with the next attempt otherwise.
BackoffIgnoresCtx(c) ==
    /\ ~Crashed
    /\ pc[c] = "backoff"
    /\ pc' = [pc EXCEPT ![c] = "inflight"]
    /\ attempts' = [attempts EXCEPT ![c] = @ + 1]
    /\ UNCHANGED << client, gateVars, op, endpoint, ctxDone, cur, resp, result,
                    err, ticket, admitAt, failed, ghostVars, reqVars, logged >>
BackoffTakesTick(c) ==
    /\ ~Crashed
    /\ pc[c] = "backoff"
    /\ IF ctxDone[c]
       THEN /\ Return(c, NilResponse, NilNotification, ErrCancelled)
            /\ UNCHANGED << attempts, rateLimiter >>
       ELSE /\ rateLimiter # << >>
            /\ rateLimiter' = Receive(rateLimiter)
            /\ pc' = [pc EXCEPT ![c] = "inflight"]
            /\ attempts' = [attempts EXCEPT ![c] = @ + 1]
            /\ UNCHANGED << resp, result, err >>
    /\ UNCHANGED << client, now, ticksEmitted, op, endpoint, ctxDone, cur, ticket,
                    admitAt, failed, ghostVars, reqVars, logged >>
Backoff(c) ==
    /\ ~Crashed
    /\ pc[c] = "backoff"
    /\ IF ctxDone[c]
       THEN /\ Return(c, NilResponse, NilNotification, ErrCancelled)
            /\ UNCHANGED attempts
       ELSE /\ pc' = [pc EXCEPT ![c] = "inflight"]
            /\ attempts' = [attempts EXCEPT ![c] = @ + 1]
            /\ UNCHANGED << resp, result, err >>
    /\ UNCHANGED << client, gateVars, op, endpoint, ctxDone, cur, ticket,
                    admitAt, failed, ghostVars, reqVars, logged >>

\* What SendRequest returns for a response whose body was read: [resp, err].
ClassifyDropsBody(r) ==
    IF ~IsValidJSON(r.body)
    THEN [resp |-> NilResponse, err |-> ErrNonJSON]
    ELSE [resp |-> Response(r.body, r.status, r.hdr), err |-> ErrNone]
ClassifyByStatus(r) ==
    IF ~IsValidJSON(r.body) \/ r.status >= 400
    THEN [resp |-> Response(r.body, r.status, r.hdr), err |-> ErrNonJSON]
    ELSE [resp |-> Response(r.body, r.status, r.hdr), err |-> ErrNone]
Classify(r) ==
    IF ~IsValidJSON(r.body)
    THEN [resp |-> Response(r.body, r.status, r.hdr), err |-> ErrNonJSON]
    ELSE [resp |-> Response(r.body, r.status, r.hdr), err |-> ErrNone]

\* What SendNotification returns for what SendRequest returned: [result, err].
DecodeFailureIsError(sr) ==
    IF sr.err # ErrNone THEN [result |-> NilNotification, err |-> sr.err]
    ELSE LET d == ParseResponse(sr.resp.JSONData) IN
         IF d.ok /\ d.val.Success THEN [result |-> Notification(d.val), err |-> ErrNone]
         ELSE [result |-> NilNotification, err |-> ErrParse]
DecodeAfterError(sr) ==
    LET d == ParseResponse(sr.resp.JSONData) IN
    IF d.ok THEN [result |-> Notification(d.val), err |-> ErrNone]
    ELSE [result |-> NilNotification, err |-> ErrParse]
Decode(sr) ==
    IF sr.err # ErrNone THEN [result |-> NilNotification, err |-> sr.err]
    ELSE LET d == ParseResponse(sr.resp.JSONData) IN
         IF d.ok THEN [result |-> Notification(d.val), err |-> ErrNone]
         ELSE [result |-> NilNotification, err |-> ErrParse]

\* io.ReadAll(resp.Body) ends; the body is classified and the call returns.
ReadBody(c, readOK) ==
    /\ ~Crashed
    /\ pc[c] = "read"
    /\ bodyRead' = [bodyRead EXCEPT ![c] = IF readOK THEN "ok" ELSE "failed"]
    /\ IF ~readOK
       THEN /\ Return(c, NilResponse, NilNotification, ErrRead)
            /\ UNCHANGED logged
       ELSE /\ logged' = [logged EXCEPT ![c] = @ \o ResponseLines(client, cur[c])]
            /\ LET sr == Classify(cur[c]) IN
               IF op[c] = "SendRequest"
               THEN Return(c, sr.resp, NilNotification, sr.err)
               ELSE Return(c, NilResponse, Decode(sr).result, Decode(sr).err)
    /\ UNCHANGED << client, gateVars, op, endpoint, ctxDone, attempts, cur,
                    ticket, admitAt, failed, cancelAt, cancelAttempts, reqVars >>

\* Any client, any server behaviour, cancellation at any point.
Next ==
    \/ Tick(MaxTime)
    \/ \E c \in 1..NumCalls, ep \in Endpoints : SendRequest(c, ep, SampleRequest)
    \/ \E c \in 1..NumCalls, params \in Params,
          options \in NotificationOptionLists : SendNotification(c, params, options)
    \/ \E c \in 1..NumCalls : Cancel(c)
    \/ \E c \in 1..NumCalls : Admit(c)
    \/ \E c \in 1..NumCalls, o \in Outcomes : FinishAttempt(c, o)
    \/ \E c \in 1..NumCalls : Backoff(c)
    \/ \E c \in 1..NumCalls, readOK \in BOOLEAN : ReadBody(c, readOK)

Spec == Init /\ [][Next]_vars

\* Concurrent callers of one client over a longer time, against a server that
\* answers every attempt with 200 and a JSON body.
InitGate ==
    /\ client = NewClient(<< WithAccount("acct", "bot"), WithToken(TokenLong) >>)
    /\ InitCalls

NextGate ==
    \/ Tick(GateTime)
    \/ \E c \in 1..GateCalls : SendRequest(c, "/v1/messages", SampleRequest)
    \/ \E c \in 1..GateCalls : SendNotification(c, "map", << >>)
    \/ \E c \in 1..GateCalls : Admit(c)
    \/ \E c \in 1..GateCalls : FinishAttempt(c, HTTPResponse(200, BodySuccess))
    \/ \E c \in 1..GateCalls : ReadBody(c, TRUE)

SpecGate == InitGate /\ [][NextGate]_vars

\* Concurrent SendRequest calls on one client, with or without debug mode,
\* whose attempts fail transiently or succeed, with a ticker that never stops.
\* The runtime wakes a call that can receive a tick, every attempt ends, every
\* backoff timer fires and every body is read; a caller is free never to call.
InitLive ==
    /\ client \in { NewClient(<< WithAccount("acct", "bot"), WithToken(TokenLong) >>),
                     NewClient(<< WithAccount("acct", "bot"), WithToken(TokenLong),
                                  WithDebug(TRUE) >>),
                     NewClient(<< WithAccount("acct", "bot"), WithToken(TokenShort),
                                  WithDebug(TRUE) >>) }
    /\ InitCalls

LiveOutcomes == {TransportError, HTTPResponse(200, BodySuccess)}

NextLive ==
    \/ TickForever(LiveTime)
    \/ \E c \in 1..LiveCalls : SendRequest(c, "/v1/messages", SampleRequest)
    \/ \E c \in 1..LiveCalls : Admit(c)
    \/ \E c \in 1..LiveCalls, o \in LiveOutcomes : FinishAttempt(c, o)
    \/ \E c \in 1..LiveCalls : Backoff(c)
    \/ \E c \in 1..LiveCalls : ReadBody(c, TRUE)

\* Weak fairness of every step but the call itself.  For ReadBody it is
\* written out, ENABLED <<ReadBody(c, TRUE)>>_vars being pc[c] = "read" while
\* the process runs.
Fairness ==
    /\ WF_vars(TickForever(LiveTime))
    /\ \A c \in 1..LiveCalls :
          /\ WF_vars(Admit(c))
          /\ WF_vars(\E o \in LiveOutcomes : FinishAttempt(c, o))
          /\ WF_vars(Backoff(c))
          /\ \/ []<>(pc[c] # "read" \/ Crashed)
             \/ []<><<ReadBody(c, TRUE)>>_vars

SpecLive == InitLive /\ [][NextLive]_vars /\ Fairness

\* ============================================================ properties
\* The calls that have passed the gate.
Admitted == { c \in Calls : ticket[c] # 0 }

Max(S) == CHOOSE x \in S : \A y \in S : y <= x
Min(S) == CHOOSE x \in S : \A y \in S : x <= y
\* The time between the first and the last admission so far.
AdmissionSpan ==
    LET T == { admitAt[c] : c \in Admitted } IN
    IF T = {} THEN 0 ELSE Max(T) - Min(T)

\* C1: under every interleaving of concurrent SendRequest and
\* SendNotification calls, the calls that have passed the gate are at most as
\* many as the ticks the ticker has emitted, and no tick admits two calls.
C1_OneCallPerTick ==
    /\ Cardinality(Admitted) <= ticksEmitted
    /\ \A c, d \in Admitted : c # d => ticket[c] # ticket[d]
    /\ \A c \in Admitted : ticket[c] \in 1..ticksEmitted

\* Three concurrent calls each admitted by a tick of its own, every emitted
\* tick used.
C1_Witness ==
    /\ Cardinality(Admitted) = 3
    /\ ticksEmitted = 3
    /\ \E c, d \in Admitted : op[c] = "SendRequest" /\ op[d] = "SendNotification"

\* C2 as stated: N admitted calls span at least N-1 tick intervals.
C2_Original ==
    Admitted # {} => AdmissionSpan >= (Cardinality(Admitted) - 1) * Interval

\* C2 amended: a tick that fired while no call was waiting stays pending and
\* admits the first call at once, so N >= 2 admitted calls span at least N-2
\* tick intervals.
C2_SpanAtLeastNMinus2 ==
    Cardinality(Admitted) >= 2 =>
        AdmissionSpan >= (Cardinality(Admitted) - 2) * Interval

\* Three calls admitted within less than two intervals: the first took a tick
\* that was pending.
C2_Witness ==
    /\ Cardinality(Admitted) = 3
    /\ AdmissionSpan < 2 * Interval
    /\ AdmissionSpan >= Interval

\* The statuses that count as retryable: 429, and 5xx other than 501.
RetriedStatus(status) == status = 429 \/ (status >= 500 /\ status # 501)
\* An attempt that failed transiently: a transport error or a retryable status.
Retryable(o) == o.kind = "error" \/ (o.kind = "response" /\ RetriedStatus(o.status))
\* The last attempt of the call obtained a response the policy does not retry.
GotFinalResponse(c) == cur[c].kind = "response" /\ ~Retryable(cur[c])
\* The last attempt of the call obtained a response with a non-JSON body.
GotNonJSON(c) == cur[c].kind = "response" /\ ~IsValidJSON(cur[c].body)
RawResponse(c) == Response(cur[c].body, cur[c].status, cur[c].hdr)

\* C3 as stated: a call whose context is cancelled while it waits at the gate
\* obtains no ticket and makes no HTTP attempt.
C3_CancelAbortsGateWait ==
    \A c \in Calls : cancelAt[c] = "gate" => ticket[c] = 0 /\ attempts[c] = 0

\* C4: when the context is cancelled while an attempt is in flight or during
\* the wait between two attempts, no further attempt is started, and the call
\* returns a nil response with the cancellation error.
C4_CancelAbortsOperation ==
    \A c \in Calls :
        cancelAt[c] \in {"inflight", "backoff"} =>
            /\ attempts[c] = cancelAttempts[c]
            /\ pc[c] \in {"inflight", "backoff", "done"}
            /\ pc[c] = "done" =>
                  /\ resp[c] = NilResponse
                  /\ result[c] = NilNotification
                  /\ err[c] = ErrCancelled

\* A call cancelled during the wait after its second failed attempt has returned.
C4_Witness ==
    \E c \in Calls :
        /\ cancelAt[c] = "backoff"
        /\ cancelAttempts[c] = 2
        /\ pc[c] = "done"

\* C5: without AccountID or BotID, SendNotification returns at once a nil
\* result and the configuration error, having taken no ticket and made no
\* HTTP attempt, whatever its parameters.
C5_MissingAccountFailsFast ==
    \A c \in Calls :
        (op[c] = "SendNotification" /\ (client.AccountID = "" \/ client.BotID = "")) =>
            /\ pc[c] = "done"
            /\ result[c] = NilNotification
            /\ err[c] = ErrConfig
            /\ attempts[c] = 0
            /\ ticket[c] = 0

\* SendNotification has returned on a client with an account and no bot.
C5_Witness ==
    \E c \in Calls :
        /\ op[c] = "SendNotification"
        /\ client.AccountID # ""
        /\ client.BotID = ""
        /\ pc[c] = "done"

\* C6: a call whose first k < RetryMax attempts failed transiently is not given
\* up; when its next attempt obtains a response with a JSON body, exactly k+1
\* attempts were made and SendRequest returns that response with a nil error
\* (the context not cancelled, the body read in full).
C6_SuccessAfterKFailures ==
    \A c \in Calls :
        /\ (err[c] = ErrGiveUp) => failed[c] >= RetryMax
        /\ ( /\ pc[c] = "done"
             /\ GotFinalResponse(c)
             /\ IsValidJSON(cur[c].body)
             /\ ~ctxDone[c]
             /\ bodyRead[c] = "ok"
             /\ failed[c] < RetryMax ) =>
               /\ attempts[c] = failed[c] + 1
               /\ op[c] = "SendRequest" => err[c] = ErrNone /\ resp[c] = RawResponse(c)
               /\ op[c] = "SendNotification" => err[c] \in {ErrNone, ErrParse}

\* SendRequest returned a response with a nil error after two failed attempts.
C6_Witness ==
    \E c \in Calls :
        /\ op[c] = "SendRequest"
        /\ pc[c] = "done"
        /\ failed[c] = 2
        /\ attempts[c] = 3
        /\ err[c] = ErrNone
        /\ resp[c] # NilResponse

\* C7 as stated: one call makes at most 3 HTTP attempts.
C7_Original == \A c \in Calls : attempts[c] <= 3

\* C7 amended: RetryMax = 3 counts the retries, so one call makes at most 4
\* HTTP attempts, the first and 3 retries.
C7_AtMostFourAttempts == \A c \in Calls : attempts[c] <= RetryMax + 1

\* A call gave up after its fourth attempt.
C7_Witness ==
    \E c \in Calls : attempts[c] = RetryMax + 1 /\ pc[c] = "done" /\ err[c] = ErrGiveUp

C9_NonJSONKeepsRawResponse ==
    \A c \in Calls :
        (op[c] = "SendRequest" /\ pc[c] = "done" /\ bodyRead[c] = "ok") =>
            /\ resp[c] = RawResponse(c)
            /\ resp[c] # NilResponse
            /\ ~IsValidJSON(cur[c].body) => err[c] = ErrNonJSON
            /\ IsValidJSON(cur[c].body) => err[c] = ErrNone

\* SendRequest returned an HTML page with status 400 and the non-JSON error.
C9_Witness ==
    \E c \in Calls :
        /\ op[c] = "SendRequest"
        /\ pc[c] = "done"
        /\ err[c] = ErrNonJSON
        /\ resp[c] = Response(BodyHTML, 400, "text/html")

\* What C10 promises for a non-JSON answer: no further attempt (the call is
\* reading the body or has returned), and the raw response with the non-JSON error.
NonJSONEndsCall(c) ==
    /\ pc[c] \in {"read", "done"}
    /\ (pc[c] = "done" /\ bodyRead[c] = "ok") =>
          /\ err[c] = ErrNonJSON
          /\ op[c] = "SendRequest" => resp[c] = RawResponse(c)

\* C10 as stated: for every HTTP status, a non-JSON answer is not retried and
\* its raw body and status are returned with the non-JSON error.
C10_Original == \A c \in Calls : GotNonJSON(c) => NonJSONEndsCall(c)

\* C10 amended: that holds for the statuses the retry policy does not retry
\* (not 429, not 5xx other than 501), when the body is read in full; a non-JSON
\* answer with a retried status (429, 500, 502...) is retried like any other,
\* and when the retries are exhausted on it the call returns a nil response
\* and the error of exhausted retries.
C10_NonJSONNotRetriedUnlessRetryStatus ==
    \A c \in Calls :
        /\ (GotNonJSON(c) /\ ~Retryable(cur[c])) => NonJSONEndsCall(c)
        /\ (GotNonJSON(c) /\ Retryable(cur[c]) /\ pc[c] = "done" /\ ~ctxDone[c]) =>
              /\ attempts[c] = RetryMax + 1
              /\ err[c] = ErrGiveUp
              /\ resp[c] = NilResponse

\* SendRequest returned the HTML page of a 501 answer after one attempt.
C10_Witness ==
    \E c \in Calls :
        /\ op[c] = "SendRequest"
        /\ pc[c] = "done"
        /\ cur[c] = HTTPResponse(501, BodyHTML)
        /\ attempts[c] = 1
        /\ err[c] = ErrNonJSON
        /\ resp[c] = Response(BodyHTML, 501, "text/html")

\* C11: when the answer is a JSON body with success false under a status the
\* retry policy does not retry, and the body is read in full, SendNotification
\* does not retry that answer (one attempt when it is the first answer) and
\* returns a non-nil result with Success false and a nil error.
C11_BusinessFailureIsResult ==
    \A c \in Calls :
        ( /\ op[c] = "SendNotification"
          /\ pc[c] = "done"
          /\ GotFinalResponse(c)
          /\ cur[c].body = BodyFailure
          /\ bodyRead[c] = "ok" ) =>
            /\ attempts[c] = failed[c] + 1
            /\ err[c] = ErrNone
            /\ result[c] # NilNotification
            /\ result[c].Success = FALSE

\* SendNotification returned the failure result of a 400 answer after exactly
\* one attempt.
C11_Witness ==
    \E c \in Calls :
        /\ op[c] = "SendNotification"
        /\ pc[c] = "done"
        /\ cur[c] = HTTPResponse(400, BodyFailure)
        /\ attempts[c] = 1
        /\ err[c] = ErrNone
        /\ result[c] # NilNotification
        /\ result[c].Success = FALSE

\* C12: when SendRequest returns the non-JSON error, SendNotification returns
\* that very error, not the error of a decoding, and a nil result.
C12_NonJSONErrorPropagates ==
    \A c \in Calls :
        ( /\ op[c] = "SendNotification"
          /\ pc[c] = "done"
          /\ bodyRead[c] = "ok"
          /\ GotNonJSON(c) ) =>
            /\ err[c] = Classify(cur[c]).err
            /\ err[c] = ErrNonJSON
            /\ result[c] = NilNotification

\* SendNotification returned the non-JSON error for an HTML page answered
\* with status 200.
C12_Witness ==
    \E c \in Calls :
        /\ op[c] = "SendNotification"
        /\ pc[c] = "done"
        /\ cur[c] = HTTPResponse(200, BodyHTML)
        /\ err[c] = ErrNonJSON
        /\ result[c] = NilNotification

\* The value of the member of a decoded JSON object with the given key.
JAbsent == [k |-> "absent"]
RECURSIVE MemberFrom(_, _, _)
MemberFrom(members, key, i) ==
    IF i > Len(members) THEN JAbsent
    ELSE IF members[i].key = key THEN members[i].val
    ELSE MemberFrom(members, key, i + 1)
Member(obj, key) == IF obj.k = "obj" THEN MemberFrom(obj.members, key, 1) ELSE JAbsent

\* The users of the request body the call handed to SendRequest, read back
\* from the JSON text.
SentUsers(c) == Member(Unmarshal(jsonRequest[c]).val, "users").items
\* The priority the last option of the call asked for ("1" without options).
AskedPriority(c) ==
    IF callOpts[c] = << >> THEN "1" ELSE callOpts[c][Len(callOpts[c])].priority
BuiltRequest(c) == op[c] = "SendNotification" /\ jsonRequest[c] # << >>

\* C13 as stated: the request body has exactly one user, whose priority is "1"
\* without options and the value of the last WithPriority option otherwise,
\* for any string values.
C13_Original ==
    \A c \in Calls :
        BuiltRequest(c) =>
            LET users == SentUsers(c) IN
            /\ Len(users) = 1
            /\ Member(users[1], "priority") = JStr(AskedPriority(c))

\* C13 amended: the request body has exactly one user; its priority is "1"
\* without options and the value of the last WithPriority option when that
\* value is not the empty string; when the last option's value is the empty
\* string the body carries no priority member at all.
C13_LastNonEmptyPriorityWins ==
    \A c \in Calls :
        BuiltRequest(c) =>
            LET users == SentUsers(c) IN
            /\ Len(users) = 1
            /\ Member(users[1], "phone") = JStr(Phone)
            /\ Member(users[1], "priority") =
                  IF AskedPriority(c) = "" THEN JAbsent ELSE JStr(AskedPriority(c))

\* A request built with WithPriority("2"), WithPriority("0") carries priority "0".
C13_Witness ==
    \E c \in Calls :
        /\ BuiltRequest(c)
        /\ callOpts[c] = << WithPriority("2"), WithPriority("0") >>
        /\ Member(SentUsers(c)[1], "priority") = JStr("0")

\* The reason of the failure payload, as a decoded value.
FailureReason ==
    [Description |-> "Template's parameter validation encountered errors",
     Error |-> "validation_error",
     Details |-> << [Phone |-> "+15868504413",
                     Type |-> "invalid-button-param",
                     Parameter |-> "buttons.0.parameters.text",
                     Description |->
                       "user `+15868504413` button's text parameter is missing or empty"] >>]

\* C14 as stated: a failure body with success false and a populated reason
\* decodes without error, with "id":"" and "message_ids":null, to a result with
\* Success false and the reason fully populated (description, error code, and
\* the details entries with phone, type, parameter and description).
C14_FailureReasonDecoded ==
    \A c \in Calls :
        ( /\ op[c] = "SendNotification"
          /\ pc[c] = "done"
          /\ bodyRead[c] = "ok"
          /\ cur[c].body = BodyFailure ) =>
            /\ err[c] = ErrNone
            /\ result[c] # NilNotification
            /\ result[c].Success = FALSE
            /\ "Reason" \in DOMAIN result[c]
            /\ result[c].Reason = FailureReason

\* C15: a success body decodes to Success true, the ID of the body, the
\* message ids of the body in the same order, and no reason.
C15_SuccessDecoded ==
    \A c \in Calls :
        ( /\ op[c] = "SendNotification"
          /\ pc[c] = "done"
          /\ bodyRead[c] = "ok"
          /\ cur[c].body = BodySuccess ) =>
            /\ err[c] = ErrNone
            /\ result[c] = [nil |-> FALSE, Success |-> TRUE, ID |-> "123",
                            MessageIDs |-> << "abc", "def" >>]
            /\ "Reason" \notin DOMAIN result[c]

\* SendNotification returned the decoded success body with its two message ids.
C15_Witness ==
    \E c \in Calls :
        /\ op[c] = "SendNotification"
        /\ pc[c] = "done"
        /\ cur[c] = HTTPResponse(200, BodySuccess)
        /\ err[c] = ErrNone
        /\ result[c] # NilNotification
        /\ result[c].MessageIDs = << "abc", "def" >>

\* The Authorization lines a call has written to the debug log.
TokenLines(c) ==
    { i \in 1..Len(logged[c]) : logged[c][i].line = "Authorization" }

\* C16 as stated: for every non-empty token, of any length, the token text a
\* debug-mode call writes to the log is a truncation that differs from the
\* whole token.
C16_TokenNeverLoggedInFull ==
    \A c \in Calls : \A i \in TokenLines(c) :
        /\ logged[c][i].token # client.Token
        /\ Len(logged[c][i].token) < Len(client.Token)

\* C17: no step of any call, whatever its outcome, changes the client's
\* configuration (BaseURL, AccountID, BotID, Token, Debug, retry policy); the
\* only shared state a step other than the ticker's changes is the gate, from
\* which it removes the pending tick.
C17_CallsLeaveClientUnchanged ==
    [][ /\ client' = client
        /\ now' = now =>
              /\ ticksEmitted' = ticksEmitted
              /\ \/ rateLimiter' = rateLimiter
                 \/ rateLimiter # << >> /\ rateLimiter' = Tail(rateLimiter) ]_vars

\* A call has returned on the debug client after taking the pending tick.
C17_Witness ==
    \E c \in Calls :
        /\ pc[c] = "done"
        /\ err[c] = ErrNone
        /\ ticket[c] # 0
        /\ rateLimiter = << >>
        /\ client = NewClient(<< WithAccount("acct", "bot"), WithToken(TokenTen),
                                 WithDebug(TRUE) >>)

\* C18: a call makes no HTTP attempt without holding its ticket; it takes its
\* ticket once, as the pending tick of the gate, and keeps it; an attempt after
\* the first (a retry) takes nothing from the gate.
C18_OneTicketBeforeFirstAttempt ==
    [][ \A c \in Calls :
          /\ attempts'[c] > attempts[c] => ticket'[c] # 0
          /\ ticket[c] # 0 => ticket'[c] = ticket[c]
          /\ (ticket[c] = 0 /\ ticket'[c] # 0) =>
                /\ rateLimiter # << >>
                /\ ticket'[c] = Head(rateLimiter)
                /\ rateLimiter' = Tail(rateLimiter)
                /\ attempts[c] = 0
          /\ (attempts'[c] > attempts[c] /\ attempts[c] >= 1) =>
                rateLimiter' = rateLimiter ]_vars

\* A call has made four attempts on its one ticket while a later tick is
\* pending at the gate.
C18_Witness ==
    \E c \in Calls :
        /\ attempts[c] = RetryMax + 1
        /\ ticket[c] # 0
        /\ rateLimiter # << >>
        /\ Cardinality(Admitted) = 1

\* C19 as stated: with a ticker that never stops and attempts that always
\* end, every call that waits at the gate is eventually admitted, and
\* eventually returns.
C19_EveryCallAdmittedAndReturns ==
    \A c \in 1..LiveCalls :
        (pc[c] = "gate") ~> (ticket[c] # 0 /\ pc[c] = "done")

\* C20: ticks that nobody consumes do not pile up: at most one tick is pending
\* at the gate, a tick that fires while one is pending being dropped, so no
\* two calls are admitted within the same tick period, however long the gate
\* was idle before.
C20_AtMostOnePendingTick ==
    /\ Len(rateLimiter) <= 1
    /\ \A c, d \in Admitted :
          c # d => admitAt[c] \div Interval # admitAt[d] \div Interval

\* After three tick periods without a call, the first call was admitted at
\* once by the first tick (the two later ticks were dropped) and a second call
\* has to wait for a fresh tick.
C20_Witness ==
    \E c, d \in Calls :
        /\ ticksEmitted = 3
        /\ ticket[c] = 1
        /\ admitAt[c] = 3 * Interval
        /\ pc[d] = "gate"
        /\ rateLimiter = << >>

\* C21 as stated: in debug mode, for every non-empty token of any length, a
\* call that has passed the gate with a well-formed URL has written the
\* authorization line and has started its first HTTP attempt; no call has
\* crashed at the token-logging step.
C21_DebugCallCompletes ==
    \A c \in Calls :
        ( /\ client.Debug
          /\ client.Token # << >>
          /\ ticket[c] # 0
          /\ ParsesAsURL(endpoint[c]) ) =>
            /\ pc[c] # "panic"
            /\ TokenLines(c) # {}
            /\ attempts[c] >= 1

\* The last attempt of the call obtained a JSON body under a status outside
\* 2xx that the policy does not retry, and the body was read in full.
GotJSONUnderErrorStatus(c) ==
    /\ pc[c] = "done"
    /\ bodyRead[c] = "ok"
    /\ GotFinalResponse(c)
    /\ cur[c].status \notin 200..299
    /\ IsValidJSON(cur[c].body)

\* C22 as stated: a response with a non-2xx status that is not retried and a
\* valid JSON body is returned by SendRequest with a nil error and its status
\* code, and SendNotification returns a decoded result with a nil error for it.
C22_Original ==
    \A c \in Calls :
        GotJSONUnderErrorStatus(c) =>
            /\ op[c] = "SendRequest" =>
                  /\ err[c] = ErrNone
                  /\ resp[c] # NilResponse
                  /\ resp[c].StatusCode = cur[c].status
            /\ op[c] = "SendNotification" =>
                  /\ err[c] = ErrNone
                  /\ result[c] # NilNotification

\* C22 amended: such a response is returned by SendRequest with a nil error,
\* its body and its status code, whatever the status; SendNotification returns
\* a decoded result with a nil error for it when the body is a JSON object of
\* the result's shape, and a nil result with the decoding error when the body
\* is valid JSON of another shape (an array).
C22_StatusDoesNotDecideError ==
    \A c \in Calls :
        GotJSONUnderErrorStatus(c) =>
            /\ op[c] = "SendRequest" =>
                  /\ err[c] = ErrNone
                  /\ resp[c] # NilResponse
                  /\ resp[c].StatusCode = cur[c].status
                  /\ resp[c].JSONData = cur[c].body
            /\ (op[c] = "SendNotification" /\ cur[c].body = BodyFailure) =>
                  /\ err[c] = ErrNone
                  /\ result[c] # NilNotification
                  /\ result[c].Success = FALSE
            /\ (op[c] = "SendNotification" /\ cur[c].body = BodyArray) =>
                  /\ err[c] = ErrParse
                  /\ result[c] = NilNotification

\* SendRequest returned the JSON body of a 400 answer with a nil error and
\* status code 400.
C22_Witness ==
    \E c \in Calls :
        /\ op[c] = "SendRequest"
        /\ pc[c] = "done"
        /\ cur[c] = HTTPResponse(400, BodyFailure)
        /\ err[c] = ErrNone
        /\ resp[c] # NilResponse
        /\ resp[c].StatusCode = 400
====
